---- MODULE Spec2Model ----
(***************************************************************************)
(* The entity / collision / game-state simulation of src/main.cpp.         *)
(*                                                                         *)
(* Units.  Time is in milliseconds (0.25 s = 250).  Shield health is in    *)
(* hundredths of a point (100.0 = 10000): Shield::update subtracts         *)
(* 10.0f * deltaTime, i.e. one hundredth per millisecond.  The boss        *)
(* position is in thousandths of a pixel: a speed of 50 px/s moves it      *)
(* 50 * deltaTime thousandths in deltaTime milliseconds.                   *)
(*                                                                         *)
(* Geometry.  Sprite bounds depend on texture files that are not part of   *)
(* the repository, so the result of every getBounds().intersects(...) and  *)
(* of every isOffScreen() test of a projectile, enemy or power-up is an    *)
(* input of the step that evaluates it.                                    *)
(*                                                                         *)
(* Granularity.  One run-loop iteration is handleEvents, then update.      *)
(* update is split at its loops: one step per iteration of each            *)
(* collection loop, in the order of the code; pc names the loop that runs, *)
(* it is the loop's iterator (an index; erase leaves it in place, ++it     *)
(* adds one), running names the update function that is executing.         *)
(* pc = "idle" is the point between two run-loop iterations.               *)
(***************************************************************************)
EXTENDS Integers, Sequences, FiniteSets, TLC

VARIABLES
    gameState,          \* Game::gameState
    deltaTime,          \* Game::deltaTime of the current run-loop iteration
    player,             \* Game::player, with the Shield it owns
    level,              \* Game::level
    bullets,            \* Game::bullets
    lasers,             \* Game::lasers
    enemies,            \* Game::enemies
    powerups,           \* Game::powerups
    enemyBullets,       \* Game::enemyBullets
    boss,               \* Game::boss (NoBoss for nullptr)
    explosions,         \* Game::explosions
    enemySpawnTimer,    \* Game::enemySpawnTimer
    powerupSpawnTimer,  \* Game::powerupSpawnTimer
    running,            \* the update function that is executing
    pc,                 \* the loop (or point) control is at
    it,                 \* the iterator of the running loop
    frames,             \* run-loop iterations so far
    frameStart,         \* what the current iteration began with (see FrameStart)
    bossDefeats,        \* bosses removed as destroyed since the session began
    last                \* the operation the last step performed, with its inputs

vars == <<gameState, deltaTime, player, level, bullets, lasers, enemies, powerups,
          enemyBullets, boss, explosions, enemySpawnTimer, powerupSpawnTimer,
          running, pc, it, frames, frameStart, bossDefeats, last>>

objects == <<bullets, lasers, enemies, powerups, enemyBullets, boss, explosions>>

timers == <<enemySpawnTimer, powerupSpawnTimer>>

----------------------------------------------------------------------------
(* Bounds of the model *)

\* run-loop iterations explored from each initial state
MaxFrames == 2

\* largest amount the class harness passes to takeDamage and heal
MaxAmount == 101

\* largest count the class harness passes to Level::update
MaxDefeated == 3

\* highest level number the class harness starts a Level from
MaxLevel == 12

\* frame deltas (ms) fed to the run loop: a short frame and a long (stalled) one
DeltaTimes == {100, 1500}

----------------------------------------------------------------------------
(* Enumerations *)

GameStates == {"MainMenu", "Playing", "BossFight", "GameOver", "Victory"}

WeaponTypes == {"Basic", "Double", "Triple", "Laser"}

PowerUpTypes == {"Health", "Shield", "WeaponUpgrade", "ScoreBoost"}

Keys == {"None", "Return", "R"}

NoBoss == [exists |-> FALSE]

----------------------------------------------------------------------------
(* Helpers on sequences and numbers *)

Max(a, b) == IF a >= b THEN a ELSE b

Min(a, b) == IF a <= b THEN a ELSE b

MinOf(S) == CHOOSE x \in S : \A y \in S : x <= y

\* std::vector::erase at index i
Erase(s, i) == [k \in 1..(Len(s) - 1) |-> IF k < i THEN s[k] ELSE s[k + 1]]

----------------------------------------------------------------------------
(* Shield *)

ShieldFull == 10000

NewShield == [health |-> ShieldFull, active |-> FALSE]

ShieldUpdate(s, dt) ==
    IF s.active
    THEN LET h == s.health - dt
         IN  [health |-> h, active |-> IF h <= 0 THEN FALSE ELSE TRUE]
    ELSE s

ShieldActivate(s) == [health |-> ShieldFull, active |-> TRUE]

ShieldTakeDamage(s, amount) ==
    LET h == s.health - 100 * amount
    IN  [health |-> h, active |-> IF h <= 0 THEN FALSE ELSE s.active]

----------------------------------------------------------------------------
(* Player *)

\* Player::speed, in pixels per second (thousandths of a pixel per millisecond)
PlayerSpeed == 300

\* the player as the constructor of Game leaves it: the sprite at (400, 550),
\* kept in thousandths of a pixel
NewPlayer ==
    [health |-> 100, score |-> 0, weaponType |-> "Basic", shootClock |-> 0,
     shield |-> NewShield, x |-> 400000, y |-> 550000]

Cooldown(w) ==
    CASE w = "Basic"  -> 250
      [] w = "Double" -> 200
      [] w = "Triple" -> 150
      [] w = "Laser"  -> 1000

\* sf::Clock keeps running between calls; only "elapsed > cooldown" is read, so
\* the elapsed time is kept up to just past the longest cooldown
ClockTick(p, dt) ==
    [p EXCEPT !.shootClock = Min(p.shootClock + dt, Cooldown("Laser") + 1)]

Directions == {"Left", "Right", "Up", "Down"}

\* the movement block of Player::update with the direction keys of held down:
\* four tests in the order of the code, each on the position the moves before
\* it have left
Move(p, held, dt) ==
    LET p1 == IF "Left" \in held /\ p.x > 0
              THEN [p EXCEPT !.x = p.x - PlayerSpeed * dt] ELSE p
        p2 == IF "Right" \in held /\ p1.x < 800000
              THEN [p1 EXCEPT !.x = p1.x + PlayerSpeed * dt] ELSE p1
        p3 == IF "Up" \in held /\ p2.y > 0
              THEN [p2 EXCEPT !.y = p2.y - PlayerSpeed * dt] ELSE p2
    IN  IF "Down" \in held /\ p3.y < 600000
        THEN [p3 EXCEPT !.y = p3.y + PlayerSpeed * dt] ELSE p3

\* Player::update with no direction key held: the sprite stays, the shield
\* depletes
PlayerUpdate(p, dt) ==
    IF p.shield.active
    THEN [p EXCEPT !.shield = ShieldUpdate(p.shield, dt)]
    ELSE p

\* Player::update with the direction keys of held down
PlayerUpdateHeld(p, held, dt) == PlayerUpdate(Move(p, held, dt), dt)

\* fault: ">=" for ">" in the comparison with the cooldown
CanShootAtCooldown(p) == p.shootClock >= Cooldown(p.weaponType)

CanShoot(p) == p.shootClock > Cooldown(p.weaponType)

\* the player after a canShoot() call
AfterCanShoot(p) == IF CanShoot(p) THEN [p EXCEPT !.shootClock = 0] ELSE p

Bullet(d) == [damage |-> d]

\* a bullet as constructed and placed by Player::shoot
BulletAt(d, x, y) == [damage |-> d, x |-> x, y |-> y]

\* fault: the second bullet of the Double weapon placed like the first
ShootAtSameSide(p, px, py) ==
    CASE p.weaponType = "Basic"  -> <<BulletAt(10, px, py - 30)>>
      [] p.weaponType = "Double" -> <<BulletAt(15, px - 20, py - 20),
                                      BulletAt(15, px - 20, py - 20)>>
      [] p.weaponType = "Triple" -> <<BulletAt(20, px, py - 30),
                                      BulletAt(20, px - 25, py - 15),
                                      BulletAt(20, px + 25, py - 15)>>
      [] p.weaponType = "Laser"  -> <<>>

\* Player::shoot with the player's sprite at (px, py)
ShootAt(p, px, py) ==
    CASE p.weaponType = "Basic"  -> <<BulletAt(10, px, py - 30)>>
      [] p.weaponType = "Double" -> <<BulletAt(15, px - 20, py - 20),
                                      BulletAt(15, px + 20, py - 20)>>
      [] p.weaponType = "Triple" -> <<BulletAt(20, px, py - 30),
                                      BulletAt(20, px - 25, py - 15),
                                      BulletAt(20, px + 25, py - 15)>>
      [] p.weaponType = "Laser"  -> <<>>

\* the bullets of Player::shoot as the game keeps them: positions are left to
\* the collision inputs
Shoot(p) ==
    LET bs == ShootAt(p, 0, 0)
    IN  [i \in 1..Len(bs) |-> Bullet(bs[i].damage)]

NewLaser == [lifetime |-> 500, damage |-> 1]

ShootLaser(p) == IF p.weaponType = "Laser" THEN <<NewLaser>> ELSE <<>>

\* fault: the floor "if (health < 0) health = 0" left out
TakeDamageNoFloor(p, amount) ==
    IF p.shield.active
    THEN [p EXCEPT !.shield = ShieldTakeDamage(p.shield, amount)]
    ELSE [p EXCEPT !.health = p.health - amount]

\* fault: what the shield cannot absorb is passed on to the player's health
TakeDamageOverflow(p, amount) ==
    IF p.shield.active
    THEN LET sh == ShieldTakeDamage(p.shield, amount)
             h  == p.health - (IF sh.health < 0 THEN (0 - sh.health) \div 100 ELSE 0)
         IN  [p EXCEPT !.shield = sh, !.health = IF h < 0 THEN 0 ELSE h]
    ELSE LET h == p.health - amount
         IN  [p EXCEPT !.health = IF h < 0 THEN 0 ELSE h]

TakeDamage(p, amount) ==
    IF p.shield.active
    THEN [p EXCEPT !.shield = ShieldTakeDamage(p.shield, amount)]
    ELSE LET h == p.health - amount
         IN  [p EXCEPT !.health = IF h < 0 THEN 0 ELSE h]

\* fault: the cap "if (health > 100) health = 100" left out
HealNoCap(p, amount) == [p EXCEPT !.health = p.health + amount]

Heal(p, amount) ==
    LET h == p.health + amount
    IN  [p EXCEPT !.health = IF h > 100 THEN 100 ELSE h]

ActivateShield(p) == [p EXCEPT !.shield = ShieldActivate(p.shield)]

\* fault: "score = points" for "score += points"
AddScoreAssign(p, points) == [p EXCEPT !.score = points]

AddScore(p, points) == [p EXCEPT !.score = p.score + points]

\* fault: the break statements of the switch left out, every case falls through
UpgradeWeaponFallThrough(p) == [p EXCEPT !.weaponType = "Laser", !.score = p.score + 50]

UpgradeWeapon(p) ==
    CASE p.weaponType = "Basic"  -> [p EXCEPT !.weaponType = "Double"]
      [] p.weaponType = "Double" -> [p EXCEPT !.weaponType = "Triple"]
      [] p.weaponType = "Triple" -> [p EXCEPT !.weaponType = "Laser"]
      [] p.weaponType = "Laser"  -> AddScore(p, 50)

ResetPlayer(p) ==
    [p EXCEPT !.health = 100, !.score = 0, !.weaponType = "Basic",
              !.x = 400000, !.y = 550000]

----------------------------------------------------------------------------
(* Enemies and the boss *)

Enemy(t, h, v) == [type |-> t, health |-> h, scoreValue |-> v]

BasicEnemy == Enemy("Basic", 20, 10)

FastEnemy == Enemy("Fast", 10, 15)

TankyEnemy == Enemy("Tanky", 40, 20)

EnemyTakeDamage(e, amount) == [e EXCEPT !.health = e.health - amount]

IsDestroyed(e) == e.health <= 0

NewBoss ==
    [exists |-> TRUE, type |-> "Boss", health |-> 500, scoreValue |-> 500,
     state |-> "Entering", stateTime |-> 0, shootCooldown |-> 0,
     x |-> 400000, y |-> 0 - 50000]

\* fault: "stateTime = 0.0f" left out of the turn from MovingRight to MovingLeft
BossUpdateNoTimerReset(b, dt) ==
    LET t  == b.stateTime + dt
        c  == b.shootCooldown - dt
        b1 == [b EXCEPT !.stateTime = t, !.shootCooldown = c]
    IN  CASE b.state = "Entering" ->
               IF b.y < 100000
               THEN [b1 EXCEPT !.y = b.y + 50 * dt]
               ELSE [b1 EXCEPT !.state = "MovingLeft", !.stateTime = 0]
          [] b.state = "MovingLeft" ->
               LET nx == b.x - 75 * dt
               IN  IF t > 2000 \/ nx < 100000
                   THEN [b1 EXCEPT !.x = nx, !.state = "MovingRight", !.stateTime = 0]
                   ELSE [b1 EXCEPT !.x = nx]
          [] b.state = "MovingRight" ->
               LET nx == b.x + 75 * dt
               IN  IF t > 2000 \/ nx > 700000
                   THEN [b1 EXCEPT !.x = nx, !.state = "MovingLeft"]
                   ELSE [b1 EXCEPT !.x = nx]

BossUpdate(b, dt) ==
    LET t  == b.stateTime + dt
        c  == b.shootCooldown - dt
        b1 == [b EXCEPT !.stateTime = t, !.shootCooldown = c]
    IN  CASE b.state = "Entering" ->
               IF b.y < 100000
               THEN [b1 EXCEPT !.y = b.y + 50 * dt]
               ELSE [b1 EXCEPT !.state = "MovingLeft", !.stateTime = 0]
          [] b.state = "MovingLeft" ->
               LET nx == b.x - 75 * dt
               IN  IF t > 2000 \/ nx < 100000
                   THEN [b1 EXCEPT !.x = nx, !.state = "MovingRight", !.stateTime = 0]
                   ELSE [b1 EXCEPT !.x = nx]
          [] b.state = "MovingRight" ->
               LET nx == b.x + 75 * dt
               IN  IF t > 2000 \/ nx > 700000
                   THEN [b1 EXCEPT !.x = nx, !.state = "MovingLeft", !.stateTime = 0]
                   ELSE [b1 EXCEPT !.x = nx]

BossCanShoot(b) == b.shootCooldown <= 0

\* the boss after a canShoot() call
BossAfterCanShoot(b) == IF BossCanShoot(b) THEN [b EXCEPT !.shootCooldown = 500] ELSE b

BossShoot(b) == <<Bullet(10), Bullet(10), Bullet(10)>>

----------------------------------------------------------------------------
(* Level *)

NewLevel == [currentLevel |-> 1, enemiesDefeated |-> 0, bossSpawned |-> FALSE]

GetEnemiesForNextLevel(lv) == 20 + (lv.currentLevel - 1) * 5

\* fault: "enemiesDefeated = 0" left out of the level-up branch
LevelUpdateNoReset(lv, defeatedEnemies) ==
    LET d == lv.enemiesDefeated + defeatedEnemies
    IN  IF d >= GetEnemiesForNextLevel(lv) /\ ~lv.bossSpawned
        THEN [currentLevel |-> lv.currentLevel + 1, enemiesDefeated |-> d,
              bossSpawned |-> TRUE]
        ELSE [lv EXCEPT !.enemiesDefeated = d]

\* fault: "&& !bossSpawned" left out of the condition
LevelUpdateRetrigger(lv, defeatedEnemies) ==
    LET d == lv.enemiesDefeated + defeatedEnemies
    IN  IF d >= GetEnemiesForNextLevel(lv)
        THEN [currentLevel |-> lv.currentLevel + 1, enemiesDefeated |-> 0,
              bossSpawned |-> TRUE]
        ELSE [lv EXCEPT !.enemiesDefeated = d]

LevelUpdate(lv, defeatedEnemies) ==
    LET d == lv.enemiesDefeated + defeatedEnemies
    IN  IF d >= GetEnemiesForNextLevel(lv) /\ ~lv.bossSpawned
        THEN [currentLevel |-> lv.currentLevel + 1, enemiesDefeated |-> 0,
              bossSpawned |-> TRUE]
        ELSE [lv EXCEPT !.enemiesDefeated = d]

ResetBossFlag(lv) == [lv EXCEPT !.bossSpawned = FALSE]

\* fault: the floor std::max(..., 0.5f) left out
GetEnemySpawnIntervalNoFloor(lv) == 1500 - (lv.currentLevel - 1) * 100

GetEnemySpawnInterval(lv) == Max(1500 - (lv.currentLevel - 1) * 100, 500)

GetPowerUpSpawnInterval(lv) == Max(10000 - (lv.currentLevel - 1) * 500, 5000)

----------------------------------------------------------------------------
(* Explosions *)

\* An explosion holds 30 particles with lifetimes drawn from [0.5 s, 1.5 s);
\* Explosion::update returns false once the longest-lived one has expired.
\* The explosion is kept by its age; when it is between the two limits the
\* draw decides whether this update is its last.
NewExplosion == [age |-> 0]

ExplosionMayLive(e, dt) == e.age + dt < 1500

ExplosionMayDie(e, dt) == e.age + dt >= 500

ExplosionUpdate(e, dt) == [age |-> e.age + dt]

----------------------------------------------------------------------------
(* Game: the objects it owns, and what a destroyed enemy does to them *)

\* the game state, the player, the level and the collections, as one value,
\* with the number of bosses the session has seen removed as destroyed
World ==
    [gameState |-> gameState, player |-> player, level |-> level,
     bullets |-> bullets, lasers |-> lasers, enemies |-> enemies,
     powerups |-> powerups, enemyBullets |-> enemyBullets, boss |-> boss,
     explosions |-> explosions, bossDefeats |-> bossDefeats]

Commit(w) ==
    /\ gameState' = w.gameState
    /\ player' = w.player
    /\ level' = w.level
    /\ bullets' = w.bullets
    /\ lasers' = w.lasers
    /\ enemies' = w.enemies
    /\ powerups' = w.powerups
    /\ enemyBullets' = w.enemyBullets
    /\ boss' = w.boss
    /\ explosions' = w.explosions
    /\ bossDefeats' = w.bossDefeats

\* fault: 10 points for every destroyed enemy, whatever its score value
EnemyKilledFlatScore(w, e) ==
    [w EXCEPT !.explosions = Append(w.explosions, NewExplosion),
              !.player = AddScore(w.player, 10),
              !.level = LevelUpdate(w.level, 1)]

\* the block run when a bullet or a laser has destroyed enemy e: an explosion,
\* the enemy's score, one Level::update(1)
EnemyKilled(w, e) ==
    [w EXCEPT !.explosions = Append(w.explosions, NewExplosion),
              !.player = AddScore(w.player, e.scoreValue),
              !.level = LevelUpdate(w.level, 1)]

----------------------------------------------------------------------------
(* Game: startGame and handleEvents *)

\* fault: "boss = nullptr" left out
StartGameKeepsBoss(w) ==
    [w EXCEPT !.gameState = "Playing",
              !.player = ResetPlayer(w.player),
              !.bullets = <<>>,
              !.lasers = <<>>,
              !.enemies = <<>>,
              !.powerups = <<>>,
              !.explosions = <<>>,
              !.enemyBullets = <<>>,
              !.bossDefeats = 0,
              !.level = NewLevel]

\* fault: "level.reset()" left out
StartGameKeepsLevel(w) ==
    [w EXCEPT !.gameState = "Playing",
              !.player = ResetPlayer(w.player),
              !.bullets = <<>>,
              !.lasers = <<>>,
              !.enemies = <<>>,
              !.powerups = <<>>,
              !.explosions = <<>>,
              !.enemyBullets = <<>>,
              !.bossDefeats = 0,
              !.boss = NoBoss]

StartGame(w) ==
    [w EXCEPT !.gameState = "Playing",
              !.player = ResetPlayer(w.player),
              !.bullets = <<>>,
              !.lasers = <<>>,
              !.enemies = <<>>,
              !.powerups = <<>>,
              !.explosions = <<>>,
              !.enemyBullets = <<>>,
              !.bossDefeats = 0,
              !.boss = NoBoss,
              !.level = NewLevel]

\* fault: the game-state tests left out of the key handling
StartsGameInAnyState(w, key) == key \in {"Return", "R"}

StartsGame(w, key) ==
    \/ w.gameState = "MainMenu" /\ key = "Return"
    \/ w.gameState \in {"GameOver", "Victory"} /\ key = "R"

\* the boss is in the game with its health at 0 or below
BossDown == boss.exists /\ boss.health <= 0

\* what is remembered of the start of a run-loop iteration: the game state,
\* the level number, whether a boss at health 0 or below awaited its removal
FrameStart ==
    [gameState |-> gameState, level |-> level.currentLevel, bossDown |-> BossDown]

\* the top of one run-loop iteration: the frame clock is read, then the
\* pending key press (if any) is handled
HandleEvents(dt, key) ==
    /\ pc = "idle"
    /\ frames < MaxFrames
    /\ frames' = frames + 1
    /\ frameStart' = FrameStart
    /\ deltaTime' = dt
    /\ LET w == [World EXCEPT !.player = ClockTick(player, dt)]
       IN  IF StartsGame(w, key)
           THEN /\ Commit(StartGame(w))
                /\ enemySpawnTimer' = 0
                /\ powerupSpawnTimer' = 0
           ELSE /\ Commit(w)
                /\ UNCHANGED timers
    /\ pc' = "update"
    /\ it' = 0
    /\ last' = [op |-> "handleEvents", key |-> key, startGame |-> StartsGame(World, key)]
    /\ UNCHANGED running

----------------------------------------------------------------------------
(* Game: the order of the collection loops *)

Loops == {"bullets", "lasers", "enemies", "powerups", "explosions", "enemyBullets"}

\* the loop that follows loop in update function fn ("tail": none)
NextLoop(fn, loop) ==
    CASE fn = "updatePlaying" ->
            (CASE loop = "bullets"  -> "lasers"
               [] loop = "lasers"   -> "enemies"
               [] loop = "enemies"  -> "powerups"
               [] loop = "powerups" -> "explosions"
               [] OTHER             -> "tail")
      [] fn = "updateBossFight" ->
            (CASE loop = "bullets"      -> "enemyBullets"
               [] loop = "enemyBullets" -> "lasers"
               [] loop = "lasers"       -> "explosions"
               [] OTHER                 -> "tail")
      [] OTHER -> "tail"

\* where control is once the iterator of loop stands at i: at that iteration,
\* or, when a loop condition fails, at the first iteration of the next loop
\* that has one, or at the tail of the function
RECURSIVE Position(_, _, _, _)
Position(fn, loop, i, w) ==
    IF loop = "tail"
    THEN [pc |-> "tail", it |-> 0]
    ELSE IF i <= Len(w[loop])
         THEN [pc |-> loop, it |-> i]
         ELSE Position(fn, NextLoop(fn, loop), 1, w)

\* one step of update function fn: the objects become w, control moves on
Step(fn, loop, i, w) ==
    /\ Commit(w)
    /\ running' = fn
    /\ pc' = Position(fn, loop, i, w).pc
    /\ it' = Position(fn, loop, i, w).it

----------------------------------------------------------------------------
(* Game: update, up to the first collection loop *)

EndFrame ==
    /\ pc' = "idle"
    /\ running' = "run"
    /\ it' = 0
    /\ last' = [op |-> "endFrame"]

UpdateMainMenu ==
    /\ pc = "update"
    /\ gameState = "MainMenu"
    /\ EndFrame
    /\ UNCHANGED <<gameState, deltaTime, player, level, objects, timers, frames,
                   frameStart, bossDefeats>>

\* update in GameOver and Victory runs updateExplosions only
UpdateEnded ==
    /\ pc = "update"
    /\ gameState \in {"GameOver", "Victory"}
    /\ Step("update", "explosions", 1, World)
    /\ last' = [op |-> "update"]
    /\ UNCHANGED <<deltaTime, timers, frames, frameStart>>

\* player.update, then the shooting block shared by updatePlaying and
\* updateBossFight: canShoot() is only called while Space is held
Shooting(w, dt, space) ==
    LET p1    == PlayerUpdate(w.player, dt)
        fires == space /\ CanShoot(p1)
        p2    == IF space THEN AfterCanShoot(p1) ELSE p1
    IN  [w EXCEPT !.player = p2,
                  !.lasers = IF fires /\ p2.weaponType = "Laser"
                             THEN w.lasers \o ShootLaser(p2) ELSE w.lasers,
                  !.bullets = IF fires /\ p2.weaponType # "Laser"
                              THEN w.bullets \o Shoot(p2) ELSE w.bullets]

SpawnEnemy(w, t) ==
    [w EXCEPT !.enemies =
        Append(w.enemies,
               CASE t = 0 -> BasicEnemy [] t = 1 -> FastEnemy [] t = 2 -> TankyEnemy)]

SpawnPowerUp(w, u) == [w EXCEPT !.powerups = Append(w.powerups, [type |-> u])]

\* updatePlaying down to "Update bullets".  t and u are the rand() draws of
\* spawnEnemy and spawnPowerUp (taken as 0 / Health when nothing is spawned).
UpdatePlayingBegin(space, t, u) ==
    /\ pc = "update"
    /\ gameState = "Playing"
    /\ LET enemyDue   == enemySpawnTimer + deltaTime >= GetEnemySpawnInterval(level)
           powerupDue == powerupSpawnTimer + deltaTime >= GetPowerUpSpawnInterval(level)
           w1 == Shooting(World, deltaTime, space)
           w2 == IF enemyDue THEN SpawnEnemy(w1, t) ELSE w1
           w3 == IF powerupDue THEN SpawnPowerUp(w2, u) ELSE w2
       IN  /\ t < (IF enemyDue THEN Min(3, level.currentLevel) ELSE 1)
           /\ powerupDue \/ u = "Health"
           /\ enemySpawnTimer' = IF enemyDue THEN 0 ELSE enemySpawnTimer + deltaTime
           /\ powerupSpawnTimer' = IF powerupDue THEN 0
                                   ELSE powerupSpawnTimer + deltaTime
           /\ Step("updatePlaying", "bullets", 1, w3)
    /\ last' = [op |-> "updatePlaying"]
    /\ UNCHANGED <<deltaTime, frames, frameStart>>

\* fault: the level number raised once more when the boss is removed
UpdateBossRaisesLevel(w, dt) ==
    IF ~w.boss.exists
    THEN [w EXCEPT !.boss = NewBoss]
    ELSE LET b1 == BossUpdate(w.boss, dt)
             b2 == BossAfterCanShoot(b1)
             w1 == [w EXCEPT !.boss = b2,
                             !.enemyBullets = IF BossCanShoot(b1)
                                              THEN w.enemyBullets \o BossShoot(b1)
                                              ELSE w.enemyBullets]
         IN  IF IsDestroyed(b2)
             THEN [w1 EXCEPT !.explosions = Append(w1.explosions, NewExplosion),
                             !.player = AddScore(w1.player, b2.scoreValue),
                             !.boss = NoBoss,
                             !.bossDefeats = w1.bossDefeats + 1,
                             !.level = [ResetBossFlag(w1.level)
                                          EXCEPT !.currentLevel = @ + 1],
                             !.gameState = IF w1.level.currentLevel >= 5
                                           THEN "Victory" ELSE "Playing"]
             ELSE w1

\* fault: "<= 5" for ">= 5" in the test for the final boss
UpdateBossVictoryEarly(w, dt) ==
    IF ~w.boss.exists
    THEN [w EXCEPT !.boss = NewBoss]
    ELSE LET b1 == BossUpdate(w.boss, dt)
             b2 == BossAfterCanShoot(b1)
             w1 == [w EXCEPT !.boss = b2,
                             !.enemyBullets = IF BossCanShoot(b1)
                                              THEN w.enemyBullets \o BossShoot(b1)
                                              ELSE w.enemyBullets]
         IN  IF IsDestroyed(b2)
             THEN [w1 EXCEPT !.explosions = Append(w1.explosions, NewExplosion),
                             !.player = AddScore(w1.player, b2.scoreValue),
                             !.boss = NoBoss,
                             !.bossDefeats = w1.bossDefeats + 1,
                             !.level = ResetBossFlag(w1.level),
                             !.gameState = IF w1.level.currentLevel <= 5
                                           THEN "Victory" ELSE "Playing"]
             ELSE w1

\* the "Update boss" block of updateBossFight
UpdateBoss(w, dt) ==
    IF ~w.boss.exists
    THEN [w EXCEPT !.boss = NewBoss]
    ELSE LET b1 == BossUpdate(w.boss, dt)
             b2 == BossAfterCanShoot(b1)
             w1 == [w EXCEPT !.boss = b2,
                             !.enemyBullets = IF BossCanShoot(b1)
                                              THEN w.enemyBullets \o BossShoot(b1)
                                              ELSE w.enemyBullets]
         IN  IF IsDestroyed(b2)
             THEN [w1 EXCEPT !.explosions = Append(w1.explosions, NewExplosion),
                             !.player = AddScore(w1.player, b2.scoreValue),
                             !.boss = NoBoss,
                             !.bossDefeats = w1.bossDefeats + 1,
                             !.level = ResetBossFlag(w1.level),
                             !.gameState = IF w1.level.currentLevel >= 5
                                           THEN "Victory" ELSE "Playing"]
             ELSE w1

\* updateBossFight down to "Update bullets": the player, the shooting block and
\* the "Update boss" block
UpdateBossFightBegin(space) ==
    /\ pc = "update"
    /\ gameState = "BossFight"
    /\ LET w == UpdateBoss(Shooting(World, deltaTime, space), deltaTime)
       IN  /\ Step("updateBossFight", "bullets", 1, w)
           /\ last' = [op |-> "updateBossFight",
                       created  |-> ~boss.exists,
                       fired    |-> Len(w.enemyBullets) > Len(enemyBullets),
                       defeated |-> boss.exists /\ ~w.boss.exists]
    /\ UNCHANGED <<deltaTime, timers, frames, frameStart>>

----------------------------------------------------------------------------
(* Game: the collection loops, one step per iteration.  Each operator gives *)
(* the objects after the loop body has run for the element at i, and the    *)
(* iterator after it.                                                       *)

\* fault: "!bulletRemoved &&" left out of the boss test: a bullet that has hit
\* an enemy goes on to the boss
UpdateBulletPiercing(w, i, hits, hitBoss, off) ==
    LET b     == w.bullets[i]
        first == IF hits = {} THEN 0 ELSE MinOf(hits)
        gone  == [w EXCEPT !.bullets = Erase(w.bullets, i),
                           !.boss = IF w.boss.exists /\ hitBoss
                                    THEN EnemyTakeDamage(w.boss, b.damage) ELSE w.boss]
    IN  IF first > 0
        THEN LET e == EnemyTakeDamage(w.enemies[first], b.damage)
             IN  [world |-> IF IsDestroyed(e)
                            THEN EnemyKilled([gone EXCEPT !.enemies = Erase(w.enemies, first)], e)
                            ELSE [gone EXCEPT !.enemies[first] = e],
                  it |-> i,
                  last |-> [op |-> "updateBullets", hits |-> hits,
                            enemy |-> first, killed |-> IsDestroyed(e), boss |-> FALSE,
                            removed |-> TRUE]]
        ELSE IF w.boss.exists /\ hitBoss
        THEN [world |-> gone,
              it |-> i,
              last |-> [op |-> "updateBullets", hits |-> hits,
                        enemy |-> 0, killed |-> FALSE, boss |-> TRUE, removed |-> TRUE]]
        ELSE [world |-> IF off THEN gone ELSE w,
              it |-> IF off THEN i ELSE i + 1,
              last |-> [op |-> "updateBullets", hits |-> hits,
                        enemy |-> 0, killed |-> FALSE, boss |-> FALSE, removed |-> off]]

\* the body of the loop of updateBullets.  hits: the enemies whose bounds the
\* bullet intersects; hitBoss, off: the boss test and isOffScreen()
UpdateBullet(w, i, hits, hitBoss, off) ==
    LET b     == w.bullets[i]
        first == IF hits = {} THEN 0 ELSE MinOf(hits)
        gone  == [w EXCEPT !.bullets = Erase(w.bullets, i)]
    IN  IF first > 0
        THEN LET e == EnemyTakeDamage(w.enemies[first], b.damage)
             IN  [world |-> IF IsDestroyed(e)
                            THEN EnemyKilled([gone EXCEPT !.enemies = Erase(w.enemies, first)], e)
                            ELSE [gone EXCEPT !.enemies[first] = e],
                  it |-> i,
                  last |-> [op |-> "updateBullets", hits |-> hits,
                            enemy |-> first, killed |-> IsDestroyed(e), boss |-> FALSE,
                            removed |-> TRUE]]
        ELSE IF w.boss.exists /\ hitBoss
        THEN [world |-> [gone EXCEPT !.boss = EnemyTakeDamage(w.boss, b.damage)],
              it |-> i,
              last |-> [op |-> "updateBullets", hits |-> hits,
                        enemy |-> 0, killed |-> FALSE, boss |-> TRUE, removed |-> TRUE]]
        ELSE [world |-> IF off THEN gone ELSE w,
              it |-> IF off THEN i ELSE i + 1,
              last |-> [op |-> "updateBullets", hits |-> hits,
                        enemy |-> 0, killed |-> FALSE, boss |-> FALSE, removed |-> off]]

BulletStep(hits, hitBoss, off) ==
    /\ pc = "bullets"
    /\ LET r == UpdateBullet(World, it, hits, hitBoss, off)
       IN  /\ Step(running, "bullets", r.it, r.world)
           /\ last' = r.last
    /\ UNCHANGED <<deltaTime, timers, frames, frameStart>>

\* the enemy loop of updateLasers for one laser: every enemy whose bounds the
\* laser intersects (hits: their indices at the start of the loop) is damaged,
\* and erased when destroyed.  kept collects the enemies that stay.
RECURSIVE LaserSweep(_, _, _, _, _, _)
LaserSweep(es, k, hits, dmg, kept, w) ==
    IF k > Len(es)
    THEN [w EXCEPT !.enemies = kept]
    ELSE IF k \in hits
         THEN LET e == EnemyTakeDamage(es[k], dmg)
              IN  IF IsDestroyed(e)
                  THEN LaserSweep(es, k + 1, hits, dmg, kept, EnemyKilled(w, e))
                  ELSE LaserSweep(es, k + 1, hits, dmg, Append(kept, e), w)
         ELSE LaserSweep(es, k + 1, hits, dmg, Append(kept, es[k]), w)

\* fault: the laser is erased, like a bullet, when it has hit something
UpdateLaserConsumed(w, i, dt, hits, hitBoss) ==
    LET l    == [w.lasers[i] EXCEPT !.lifetime = @ - dt]
        w1   == LaserSweep(w.enemies, 1, hits, l.damage, <<>>, w)
        w2   == IF w1.boss.exists /\ hitBoss
                THEN [w1 EXCEPT !.boss = EnemyTakeDamage(w1.boss, l.damage)] ELSE w1
        stay == l.lifetime > 0 /\ hits = {} /\ ~(w.boss.exists /\ hitBoss)
    IN  [world |-> IF stay THEN [w2 EXCEPT !.lasers[i] = l]
                   ELSE [w2 EXCEPT !.lasers = Erase(w2.lasers, i)],
         it |-> IF stay THEN i + 1 ELSE i,
         last |-> [op |-> "updateLasers", enemies |-> hits,
                   killed |-> Len(w.enemies) - Len(w1.enemies),
                   boss |-> w.boss.exists /\ hitBoss, removed |-> ~stay]]

\* the body of the loop of updateLasers
UpdateLaser(w, i, dt, hits, hitBoss) ==
    LET l  == [w.lasers[i] EXCEPT !.lifetime = @ - dt]
        w1 == LaserSweep(w.enemies, 1, hits, l.damage, <<>>, w)
        w2 == IF w1.boss.exists /\ hitBoss
              THEN [w1 EXCEPT !.boss = EnemyTakeDamage(w1.boss, l.damage)] ELSE w1
    IN  [world |-> IF l.lifetime > 0 THEN [w2 EXCEPT !.lasers[i] = l]
                   ELSE [w2 EXCEPT !.lasers = Erase(w2.lasers, i)],
         it |-> IF l.lifetime > 0 THEN i + 1 ELSE i,
         last |-> [op |-> "updateLasers", enemies |-> hits,
                   killed |-> Len(w.enemies) - Len(w1.enemies),
                   boss |-> w.boss.exists /\ hitBoss, removed |-> ~(l.lifetime > 0)]]

LaserStep(hits, hitBoss) ==
    /\ pc = "lasers"
    /\ LET r == UpdateLaser(World, it, deltaTime, hits, hitBoss)
       IN  /\ Step(running, "lasers", r.it, r.world)
           /\ last' = r.last
    /\ UNCHANGED <<deltaTime, timers, frames, frameStart>>

\* fault: an enemy destroyed by the collision with the player is scored and
\* counted like one destroyed by a bullet
UpdateEnemyScored(w, i, collides, off) ==
    IF collides
    THEN LET p  == TakeDamage(w.player, 25)
             w1 == EnemyKilled([w EXCEPT !.player = p,
                                         !.enemies = Erase(w.enemies, i)],
                               w.enemies[i])
         IN  [world |-> IF p.health <= 0
                        THEN [w1 EXCEPT !.gameState = "GameOver",
                                        !.explosions = Append(w1.explosions, NewExplosion)]
                        ELSE w1,
              it |-> i,
              last |-> [op |-> "updateEnemies", collided |-> TRUE, removed |-> TRUE]]
    ELSE [world |-> IF off THEN [w EXCEPT !.enemies = Erase(w.enemies, i)] ELSE w,
          it |-> IF off THEN i ELSE i + 1,
          last |-> [op |-> "updateEnemies", collided |-> FALSE, removed |-> off]]

\* the body of the loop of updateEnemies
UpdateEnemy(w, i, collides, off) ==
    IF collides
    THEN LET p  == TakeDamage(w.player, 25)
             w1 == [w EXCEPT !.player = p,
                             !.explosions = Append(w.explosions, NewExplosion),
                             !.enemies = Erase(w.enemies, i)]
         IN  [world |-> IF p.health <= 0
                        THEN [w1 EXCEPT !.gameState = "GameOver",
                                        !.explosions = Append(w1.explosions, NewExplosion)]
                        ELSE w1,
              it |-> i,
              last |-> [op |-> "updateEnemies", collided |-> TRUE, removed |-> TRUE]]
    ELSE [world |-> IF off THEN [w EXCEPT !.enemies = Erase(w.enemies, i)] ELSE w,
          it |-> IF off THEN i ELSE i + 1,
          last |-> [op |-> "updateEnemies", collided |-> FALSE, removed |-> off]]

EnemyStep(collides, off) ==
    /\ pc = "enemies"
    /\ LET r == UpdateEnemy(World, it, collides, off)
       IN  /\ Step(running, "enemies", r.it, r.world)
           /\ last' = r.last
    /\ UNCHANGED <<deltaTime, timers, frames, frameStart>>

\* fault: the "break" of the Health case left out, which falls through to Shield
ApplyPowerUpFallThrough(p, type) ==
    CASE type = "Health"        -> ActivateShield(Heal(p, 25))
      [] type = "Shield"        -> ActivateShield(p)
      [] type = "WeaponUpgrade" -> UpgradeWeapon(p)
      [] type = "ScoreBoost"    -> AddScore(p, 50)

ApplyPowerUp(p, type) ==
    CASE type = "Health"        -> Heal(p, 25)
      [] type = "Shield"        -> ActivateShield(p)
      [] type = "WeaponUpgrade" -> UpgradeWeapon(p)
      [] type = "ScoreBoost"    -> AddScore(p, 50)

\* the body of the loop of updatePowerUps
UpdatePowerUp(w, i, collides, off) ==
    LET gone == [w EXCEPT !.powerups = Erase(w.powerups, i)]
    IN  IF collides
        THEN [world |-> [gone EXCEPT !.player = ApplyPowerUp(w.player, w.powerups[i].type)],
              it |-> i,
              last |-> [op |-> "updatePowerUps", applied |-> w.powerups[i].type,
                        removed |-> TRUE, weaponBefore |-> w.player.weaponType]]
        ELSE [world |-> IF off THEN gone ELSE w,
              it |-> IF off THEN i ELSE i + 1,
              last |-> [op |-> "updatePowerUps", applied |-> "none", removed |-> off,
                        weaponBefore |-> w.player.weaponType]]

PowerUpStep(collides, off) ==
    /\ pc = "powerups"
    /\ LET r == UpdatePowerUp(World, it, collides, off)
       IN  /\ Step(running, "powerups", r.it, r.world)
           /\ last' = r.last
    /\ UNCHANGED <<deltaTime, timers, frames, frameStart>>

\* the body of the loop of updateExplosions; expires is the outcome of the
\* particle draw
UpdateExplosion(w, i, dt, expires) ==
    [world |-> IF expires THEN [w EXCEPT !.explosions = Erase(w.explosions, i)]
               ELSE [w EXCEPT !.explosions[i] = ExplosionUpdate(@, dt)],
     it |-> IF expires THEN i ELSE i + 1,
     last |-> [op |-> "updateExplosions", removed |-> expires]]

ExplosionStep(expires) ==
    /\ pc = "explosions"
    /\ IF expires THEN ExplosionMayDie(explosions[it], deltaTime)
                  ELSE ExplosionMayLive(explosions[it], deltaTime)
    /\ LET r == UpdateExplosion(World, it, deltaTime, expires)
       IN  /\ Step(running, "explosions", r.it, r.world)
           /\ last' = r.last
    /\ UNCHANGED <<deltaTime, timers, frames, frameStart>>

\* fault: "< 0" for "<= 0" in the test of the player's health
UpdateEnemyBulletNoDeath(w, i, collides, off) ==
    LET gone == [w EXCEPT !.enemyBullets = Erase(w.enemyBullets, i)]
    IN  IF collides
        THEN LET p == TakeDamage(w.player, 10)
             IN  [world |-> IF p.health < 0
                            THEN [gone EXCEPT !.player = p,
                                              !.gameState = "GameOver",
                                              !.explosions = Append(w.explosions, NewExplosion)]
                            ELSE [gone EXCEPT !.player = p],
                  it |-> i,
                  last |-> [op |-> "enemyBullets", collided |-> TRUE, removed |-> TRUE]]
        ELSE [world |-> IF off THEN gone ELSE w,
              it |-> IF off THEN i ELSE i + 1,
              last |-> [op |-> "enemyBullets", collided |-> FALSE, removed |-> off]]

\* fault: "++it" after the erase of a bullet that has hit the player
UpdateEnemyBulletSkips(w, i, collides, off) ==
    LET gone == [w EXCEPT !.enemyBullets = Erase(w.enemyBullets, i)]
    IN  IF collides
        THEN LET p == TakeDamage(w.player, 10)
             IN  [world |-> IF p.health <= 0
                            THEN [gone EXCEPT !.player = p,
                                              !.gameState = "GameOver",
                                              !.explosions = Append(w.explosions, NewExplosion)]
                            ELSE [gone EXCEPT !.player = p],
                  it |-> i + 1,
                  last |-> [op |-> "enemyBullets", collided |-> TRUE, removed |-> TRUE]]
        ELSE [world |-> IF off THEN gone ELSE w,
              it |-> IF off THEN i ELSE i + 1,
              last |-> [op |-> "enemyBullets", collided |-> FALSE, removed |-> off]]

\* the body of the enemy-bullet loop of updateBossFight
UpdateEnemyBullet(w, i, collides, off) ==
    LET gone == [w EXCEPT !.enemyBullets = Erase(w.enemyBullets, i)]
    IN  IF collides
        THEN LET p == TakeDamage(w.player, 10)
             IN  [world |-> IF p.health <= 0
                            THEN [gone EXCEPT !.player = p,
                                              !.gameState = "GameOver",
                                              !.explosions = Append(w.explosions, NewExplosion)]
                            ELSE [gone EXCEPT !.player = p],
                  it |-> i,
                  last |-> [op |-> "enemyBullets", collided |-> TRUE, removed |-> TRUE]]
        ELSE [world |-> IF off THEN gone ELSE w,
              it |-> IF off THEN i ELSE i + 1,
              last |-> [op |-> "enemyBullets", collided |-> FALSE, removed |-> off]]

EnemyBulletStep(collides, off) ==
    /\ pc = "enemyBullets"
    /\ LET r == UpdateEnemyBullet(World, it, collides, off)
       IN  /\ Step(running, "enemyBullets", r.it, r.world)
           /\ last' = r.last
    /\ UNCHANGED <<deltaTime, timers, frames, frameStart>>

----------------------------------------------------------------------------
(* Game: the end of update *)

StartBossFight(w) == [w EXCEPT !.gameState = "BossFight"]

\* the tail of updatePlaying: "Check if it's time to spawn a boss"
FinishPlaying ==
    /\ pc = "tail"
    /\ running = "updatePlaying"
    /\ Commit(IF level.bossSpawned THEN StartBossFight(World) ELSE World)
    /\ EndFrame
    /\ UNCHANGED <<deltaTime, timers, frames, frameStart>>

\* the tail of updateBossFight, and of update in GameOver and Victory
FinishOther ==
    /\ pc = "tail"
    /\ running \in {"updateBossFight", "update"}
    /\ EndFrame
    /\ UNCHANGED <<gameState, deltaTime, player, level, objects, timers, frames,
                   frameStart, bossDefeats>>

----------------------------------------------------------------------------
(* The game as a state machine *)

Constructed ==
    /\ gameState = "MainMenu"
    /\ deltaTime = 0
    /\ player = NewPlayer
    /\ level = NewLevel
    /\ bullets = <<>>
    /\ lasers = <<>>
    /\ enemies = <<>>
    /\ powerups = <<>>
    /\ enemyBullets = <<>>
    /\ boss = NoBoss
    /\ explosions = <<>>
    /\ enemySpawnTimer = 0
    /\ powerupSpawnTimer = 0
    /\ running = "run"
    /\ pc = "idle"
    /\ it = 0
    /\ frames = 0
    /\ frameStart = FrameStart
    /\ bossDefeats = 0
    /\ last = [op |-> "init"]

\* the fewest points a session can hold at level lv.currentLevel with the boss
\* flag as it is: 10 per enemy of the thresholds passed and of the running
\* count (every enemy a Basic one), 500 per boss defeated
RECURSIVE PassedThresholds(_)
PassedThresholds(n) ==
    IF n <= 1 THEN 0 ELSE PassedThresholds(n - 1) + 20 + (n - 2) * 5

SessionScore(lv, bossesDefeated) ==
    10 * (PassedThresholds(lv.currentLevel) + lv.enemiesDefeated) + 500 * bossesDefeated

\* A session in progress, between two run-loop iterations.  c gives the game
\* state, the level reached and the running count, the player's health, weapon
\* and shield, the boss, the enemies on screen and the spawn timers.
MidSession(c) ==
    /\ gameState = c.gameState
    /\ deltaTime = 100
    /\ level = [currentLevel |-> c.level, enemiesDefeated |-> c.defeated,
                bossSpawned |-> (c.gameState = "BossFight")]
    /\ player = [health |-> c.health, weaponType |-> c.weapon, shootClock |-> 300,
                 shield |-> c.shield, x |-> 400000, y |-> 550000,
                 score |-> SessionScore(level, c.level - 1 -
                                        (IF c.gameState = "BossFight" THEN 1 ELSE 0))]
    /\ bullets = <<>>
    /\ lasers = <<>>
    /\ enemies = c.enemies
    /\ powerups = c.powerups
    /\ enemyBullets = <<>>
    /\ boss = c.boss
    /\ explosions = <<>>
    /\ enemySpawnTimer = c.enemyTimer
    /\ powerupSpawnTimer = c.powerupTimer
    /\ running = "run"
    /\ pc = "idle"
    /\ it = 0
    /\ frames = 0
    /\ frameStart = FrameStart
    /\ bossDefeats = c.level - 1 - (IF c.gameState = "BossFight" THEN 1 ELSE 0)
    /\ last = [op |-> "endFrame"]

Checkpoint(gs, lv, d, h, w, sh, b, es, ps, et, pt) ==
    [gameState |-> gs, level |-> lv, defeated |-> d, health |-> h, weapon |-> w,
     shield |-> sh, boss |-> b, enemies |-> es, powerups |-> ps,
     enemyTimer |-> et, powerupTimer |-> pt]

\* a shield picked up three 100 ms frames ago and hit by one enemy in each of them
ShieldWorn == [health |-> 2200, active |-> TRUE]

\* a boss that has finished entering (30 frames of 100 ms) and has been hit down
\* to health h
BossAt(h) ==
    [NewBoss EXCEPT !.health = h, !.state = "MovingLeft", !.stateTime = 0,
                    !.shootCooldown = 100, !.y = 100000]

Upgrade == [type |-> "WeaponUpgrade"]

\* one enemy short of the first threshold, three body hits taken
NearFirstBoss ==
    Checkpoint("Playing", 1, 19, 25, "Triple", NewShield, NoBoss, <<>>, <<>>, 1400, 0)

\* early in a session, the shield nearly used up
ShieldLow ==
    Checkpoint("Playing", 1, 0, 100, "Basic", ShieldWorn, NoBoss, <<>>, <<>>, 1400, 0)

\* two weapon upgrades falling towards a player with the first weapon
TwoUpgrades ==
    Checkpoint("Playing", 1, 5, 75, "Basic", NewShield, NoBoss, <<>>,
               <<Upgrade, Upgrade>>, 0, 0)

\* the same with the third weapon
TwoUpgradesAtTriple ==
    Checkpoint("Playing", 2, 0, 100, "Triple", NewShield, NoBoss, <<>>,
               <<Upgrade, Upgrade>>, 0, 0)

\* third level with the laser: a worn-down enemy on screen, one enemy short of
\* the threshold
NearThirdBoss ==
    Checkpoint("Playing", 3, 29, 100, "Laser", NewShield, NoBoss,
               <<EnemyTakeDamage(TankyEnemy, 39)>>, <<>>, 0, 0)

\* second level, one boss bullet taken, a power-up about to be spawned
PowerUpDue ==
    Checkpoint("Playing", 2, 10, 90, "Double", NewShield, NoBoss, <<>>, <<>>, 0, 9400)

\* the boss fight has just been triggered: no boss yet, an enemy still on screen
BossTriggered ==
    Checkpoint("BossFight", 2, 0, 75, "Basic", NewShield, NoBoss, <<BasicEnemy>>,
               <<>>, 0, 0)

\* first boss nearly beaten, the player nearly dead, a damaged enemy on screen,
\* the running count one short of the next threshold
FirstBossLow ==
    Checkpoint("BossFight", 2, 24, 10, "Double", NewShield, BossAt(20),
               <<EnemyTakeDamage(BasicEnemy, 10)>>, <<>>, 0, 0)

\* third boss, fought with the laser
LaserBoss ==
    Checkpoint("BossFight", 4, 3, 100, "Laser", NewShield, BossAt(1), <<>>, <<>>, 0, 0)

\* last boss nearly beaten, the player nearly dead
LastBossLow ==
    Checkpoint("BossFight", 5, 0, 10, "Triple", NewShield, BossAt(20), <<>>, <<>>, 0, 0)

\* last boss brought to health 0 by the last hit of the frame before, the
\* player under a shield picked up shortly before the fight
LastBossDown ==
    Checkpoint("BossFight", 5, 0, 100, "Triple", ShieldWorn, BossAt(0), <<>>, <<>>, 0, 0)

\* three body hits taken at the first level; an enemy and a Health power-up
\* are on screen, coming down towards the player
HealthInReach ==
    Checkpoint("Playing", 1, 0, 25, "Basic", NewShield, NoBoss, <<BasicEnemy>>,
               <<[type |-> "Health"]>>, 0, 0)

\* last boss brought to health 0 by the last hit of the frame before; 40
\* enemies have been destroyed during the fight and a damaged one is on screen
LastBossDownLate ==
    Checkpoint("BossFight", 5, 40, 100, "Basic", NewShield, BossAt(0),
               <<EnemyTakeDamage(BasicEnemy, 10)>>, <<>>, 0, 0)

Checkpoints ==
    { NearFirstBoss, ShieldLow, TwoUpgrades, TwoUpgradesAtTriple, NearThirdBoss,
      PowerUpDue, HealthInReach,
      BossTriggered, FirstBossLow, LaserBoss, LastBossLow, LastBossDown,
      LastBossDownLate }

Init == Constructed \/ \E c \in Checkpoints : MidSession(c)

Next ==
    \/ \E dt \in DeltaTimes, key \in Keys : HandleEvents(dt, key)
    \/ UpdateMainMenu
    \/ UpdateEnded
    \/ \E space \in BOOLEAN, t \in 0..2, u \in PowerUpTypes :
          UpdatePlayingBegin(space, t, u)
    \/ \E space \in BOOLEAN : UpdateBossFightBegin(space)
    \/ \E hits \in SUBSET (1..Len(enemies)), hitBoss \in BOOLEAN, off \in BOOLEAN :
          BulletStep(hits, hitBoss, off)
    \/ \E hits \in SUBSET (1..Len(enemies)), hitBoss \in BOOLEAN :
          LaserStep(hits, hitBoss)
    \/ \E collides \in BOOLEAN, off \in BOOLEAN : EnemyStep(collides, off)
    \/ \E collides \in BOOLEAN, off \in BOOLEAN : PowerUpStep(collides, off)
    \/ \E expires \in BOOLEAN : ExplosionStep(expires)
    \/ \E collides \in BOOLEAN, off \in BOOLEAN : EnemyBulletStep(collides, off)
    \/ FinishPlaying
    \/ FinishOther

Spec == Init /\ [][Next]_vars

----------------------------------------------------------------------------
(* The classes on their own.  Player (with its Shield) and Level are driven *)
(* through their public methods from every state the object can hold: one   *)
(* call per behaviour, with the object before the call kept in last.        *)

\* never picked up; just picked up; worn; worn and then broken by a body hit
ShieldStates ==
    {NewShield, ShieldActivate(NewShield), ShieldWorn, ShieldTakeDamage(ShieldWorn, 25)}

PlayerStates ==
    [health : 0..100, score : {0}, weaponType : WeaponTypes, shootClock : {0},
     shield : ShieldStates, x : {400000}, y : {550000}]

\* with the boss flag clear the running count may already stand at or above the
\* threshold: enemies destroyed during a boss fight are counted too
LevelStates ==
    UNION { [currentLevel : {n}, bossSpawned : BOOLEAN,
             enemiesDefeated : 0..(20 + (n - 1) * 5 + 1)] : n \in 1..MaxLevel }

UnitInit ==
    /\ \/ player \in PlayerStates /\ level = NewLevel
       \/ player = NewPlayer /\ level \in LevelStates
    /\ gameState = "MainMenu"
    /\ deltaTime = 0
    /\ bullets = <<>>
    /\ lasers = <<>>
    /\ enemies = <<>>
    /\ powerups = <<>>
    /\ enemyBullets = <<>>
    /\ boss = NoBoss
    /\ explosions = <<>>
    /\ enemySpawnTimer = 0
    /\ powerupSpawnTimer = 0
    /\ running = "harness"
    /\ pc = "call"
    /\ it = 0
    /\ frames = 0
    /\ frameStart = FrameStart
    /\ bossDefeats = 0
    /\ last = [op |-> "init"]

\* a method of Player is called: the player becomes p
PlayerCall(p, name, arg) ==
    /\ pc = "call"
    /\ level = NewLevel
    /\ player' = p
    /\ pc' = "returned"
    /\ last' = [op |-> name, arg |-> arg, player |-> player, level |-> level]
    /\ UNCHANGED <<gameState, deltaTime, level, objects, timers, running, it,
                   frames, frameStart, bossDefeats>>

CallTakeDamage(amount) == PlayerCall(TakeDamage(player, amount), "takeDamage", amount)

CallHeal(amount) == PlayerCall(Heal(player, amount), "heal", amount)

CallUpgradeWeapon == PlayerCall(UpgradeWeapon(player), "upgradeWeapon", 0)

CallActivateShield == PlayerCall(ActivateShield(player), "activateShield", 0)

CallPlayerUpdate(dt) == PlayerCall(PlayerUpdate(player, dt), "update", dt)

\* Level::update is called
CallLevelUpdate(n) ==
    /\ pc = "call"
    /\ player = NewPlayer
    /\ level' = LevelUpdate(level, n)
    /\ pc' = "returned"
    /\ last' = [op |-> "Level.update", arg |-> n, player |-> player, level |-> level]
    /\ UNCHANGED <<gameState, deltaTime, player, objects, timers, running, it,
                   frames, frameStart, bossDefeats>>

\* Level::getEnemySpawnInterval and Level::getPowerUpSpawnInterval are called
CallSpawnIntervals ==
    /\ pc = "call"
    /\ player = NewPlayer
    /\ pc' = "returned"
    /\ last' = [op |-> "getSpawnIntervals", enemy |-> GetEnemySpawnInterval(level),
                powerup |-> GetPowerUpSpawnInterval(level), player |-> player,
                level |-> level]
    /\ UNCHANGED <<gameState, deltaTime, player, level, objects, timers,
                   running, it, frames, frameStart, bossDefeats>>

\* The shoot clock is driven through sequences of calls: time passes, canShoot
\* is called, the weapon is upgraded, in any order.  last.elapsed keeps the
\* time since the last true result of canShoot (since construction before the
\* first), measured apart from the clock and, like it, only up to just past
\* the longest cooldown.
ClockOps == {"canShoot", "wait", "upgradeWeapon"}

Elapsed == IF pc = "clock" /\ last.op \in ClockOps THEN last.elapsed ELSE 0

ClockCall(p, name, result, elapsed) ==
    /\ pc \in {"call", "clock"}
    /\ level = NewLevel
    /\ player' = p
    /\ pc' = "clock"
    /\ last' = [op |-> name, result |-> result, elapsed |-> elapsed,
                player |-> player, level |-> level]
    /\ UNCHANGED <<gameState, deltaTime, level, objects, timers, running, it,
                   frames, frameStart, bossDefeats>>

\* dt of time passes between two calls
Wait(dt) ==
    ClockCall(ClockTick(player, dt), "wait", FALSE,
              Min(Elapsed + dt, Cooldown("Laser") + 1))

\* Player::canShoot is called
CallCanShoot ==
    ClockCall(AfterCanShoot(player), "canShoot", CanShoot(player),
              IF CanShoot(player) THEN 0 ELSE Elapsed)

\* Player::upgradeWeapon is called below the Laser weapon
UpgradeBetweenShots ==
    /\ player.weaponType # "Laser"
    /\ ClockCall(UpgradeWeapon(player), "upgradeWeapon", FALSE, Elapsed)

\* Player::update is called again and again on the player the constructor of
\* Game has left, with any direction keys held
CallMove(held, dt) ==
    /\ pc \in {"call", "move"}
    /\ level = NewLevel
    /\ pc = "call" => player = NewPlayer
    /\ player' = PlayerUpdateHeld(player, held, dt)
    /\ pc' = "move"
    /\ last' = [op |-> "move", arg |-> dt]
    /\ UNCHANGED <<gameState, deltaTime, level, objects, timers, running, it,
                   frames, frameStart, bossDefeats>>

\* sprite positions the harness places the player at
Positions == {<<400, 550>>, <<0, 0>>, <<812, 600>>}

\* Player::shoot and Player::shootLaser are called with the sprite at pos
CallShoot(pos) ==
    /\ pc = "call"
    /\ level = NewLevel
    /\ pc' = "returned"
    /\ last' = [op |-> "shoot", x |-> pos[1], y |-> pos[2],
                bullets |-> ShootAt(player, pos[1], pos[2]),
                laser |-> ShootLaser(player), player |-> player, level |-> level]
    /\ UNCHANGED <<gameState, deltaTime, player, level, objects, timers,
                   running, it, frames, frameStart, bossDefeats>>

UnitNext ==
    \/ \E amount \in 0..MaxAmount : CallTakeDamage(amount)
    \/ \E amount \in 0..MaxAmount : CallHeal(amount)
    \/ CallUpgradeWeapon
    \/ CallActivateShield
    \/ \E dt \in DeltaTimes : CallPlayerUpdate(dt)
    \/ \E n \in 0..MaxDefeated : CallLevelUpdate(n)
    \/ CallSpawnIntervals
    \/ \E pos \in Positions : CallShoot(pos)
    \/ \E dt \in DeltaTimes : Wait(dt)
    \/ CallCanShoot
    \/ UpgradeBetweenShots
    \/ \E held \in SUBSET Directions, dt \in DeltaTimes : CallMove(held, dt)

SpecUnit == UnitInit /\ [][UnitNext]_vars

\* the game and the classes side by side
SpecAll == (Init \/ UnitInit) /\ [][Next \/ UnitNext]_vars

----------------------------------------------------------------------------
(* The boss on its own: a BossEnemy as updateBossFight creates it, driven    *)
(* frame after frame as the "Update boss" block drives it while it lives:    *)
(* update, then canShoot, then shoot when canShoot has returned true.  The   *)
(* run loop processes frame after frame, so the step is taken again and      *)
(* again.                                                                    *)

BossInit ==
    /\ gameState = "BossFight"
    /\ deltaTime = 0
    /\ player = NewPlayer
    /\ level = [currentLevel |-> 2, enemiesDefeated |-> 0, bossSpawned |-> TRUE]
    /\ bullets = <<>>
    /\ lasers = <<>>
    /\ enemies = <<>>
    /\ powerups = <<>>
    /\ enemyBullets = <<>>
    /\ boss = NewBoss
    /\ explosions = <<>>
    /\ enemySpawnTimer = 0
    /\ powerupSpawnTimer = 0
    /\ running = "harness"
    /\ pc = "boss"
    /\ it = 0
    /\ frames = 0
    /\ frameStart = FrameStart
    /\ bossDefeats = 0
    /\ last = [op |-> "init"]

\* one frame of the boss; the bullets of a volley are handed to last
BossFrame(dt) ==
    /\ pc = "boss"
    /\ boss.exists
    /\ deltaTime' = dt
    /\ boss' = BossAfterCanShoot(BossUpdate(boss, dt))
    /\ last' = [op |-> "bossFrame",
                volley |-> IF BossCanShoot(BossUpdate(boss, dt))
                           THEN BossShoot(BossUpdate(boss, dt)) ELSE <<>>]
    /\ UNCHANGED <<gameState, player, level, bullets, lasers, enemies, powerups,
                   enemyBullets, explosions, timers, running, pc, it, frames,
                   frameStart, bossDefeats>>

BossNext == \E dt \in DeltaTimes : BossFrame(dt)

SpecBoss == BossInit /\ [][BossNext]_vars /\ WF_vars(BossNext)

----------------------------------------------------------------------------
(* Properties *)

\* a run-loop iteration has just been completed (or none has begun yet)
FrameEnd == pc = "idle"

\* the step taken is a startGame
StartedGame == last'.op = "handleEvents" /\ last'.startGame

\* the step taken is one upgradeWeapon call: by a collected WeaponUpgrade
\* power-up in the game, or by the harness
UpgradedWeapon ==
    \/ last'.op = "updatePowerUps" /\ last'.applied = "WeaponUpgrade"
    \/ last'.op = "upgradeWeapon"

Rank(w) ==
    CASE w = "Basic" -> 0 [] w = "Double" -> 1 [] w = "Triple" -> 2 [] w = "Laser" -> 3

\* C1: at the end of every frame, a game state of Playing or BossFight means
\* the player's health is above 0 (a player whose health reached 0 during the
\* frame leaves it in GameOver).
C1_AliveWhilePlaying ==
    FrameEnd /\ gameState \in {"Playing", "BossFight"} => player.health > 0

\* a frame that began in Playing has ended in BossFight with the player's
\* health at 0
C1_DeadInBossFight ==
    /\ FrameEnd
    /\ frameStart.gameState = "Playing"
    /\ gameState = "BossFight"
    /\ player.health = 0

\* C2: takeDamage(a) with the shield inactive leaves health = max(0, h - a)
\* and nothing else of the player changed.
C2_TakeDamageFloors ==
    [][last'.op = "takeDamage" /\ ~player.shield.active
         => player' = [player EXCEPT !.health = Max(0, player.health - last'.arg)]]_vars

\* a hit larger than the health left has been taken without a shield
C2_Floored ==
    /\ last.op = "takeDamage"
    /\ ~last.player.shield.active
    /\ last.arg > last.player.health
    /\ last.player.health > 0
    /\ player.health = 0

\* C3: takeDamage(a) with the shield active leaves the player's health (and
\* score and weapon) unchanged; the shield's health goes down by a, and the
\* shield is active afterwards exactly when its health is still above 0.
C3_ShieldAbsorbs ==
    [][last'.op = "takeDamage" /\ player.shield.active
         => /\ player'.health = player.health
            /\ player'.score = player.score
            /\ player'.weaponType = player.weaponType
            /\ player'.shield.health = player.shield.health - 100 * last'.arg
            /\ player'.shield.active = (player'.shield.health > 0)]_vars

\* an active shield has taken more than it had left, the player's health at
\* less than the excess
C3_ExcessAbsorbed ==
    /\ last.op = "takeDamage"
    /\ last.player.shield.active
    /\ 100 * last.arg > last.player.shield.health + 100 * last.player.health
    /\ last.player.health > 0
    /\ ~player.shield.active
    /\ player.health = last.player.health

\* C4: apart from startGame the weapon changes only in an upgradeWeapon call;
\* the call moves it one step along Basic, Double, Triple, Laser and leaves the
\* score, or, at Laser, leaves the weapon and adds exactly 50 to the score.
C4_WeaponSteps ==
    [][/\ ~StartedGame /\ ~UpgradedWeapon => player'.weaponType = player.weaponType
       /\ UpgradedWeapon
            => IF player.weaponType = "Laser"
               THEN /\ player'.weaponType = "Laser"
                    /\ player'.score = player.score + 50
               ELSE /\ Rank(player'.weaponType) = Rank(player.weaponType) + 1
                    /\ player'.score = player.score]_vars

\* in the game, a WeaponUpgrade power-up has been collected at Laser, the one
\* before it in the same frame having brought the weapon there
C4_UpgradedAtLaser ==
    /\ last.op = "updatePowerUps"
    /\ last.applied = "WeaponUpgrade"
    /\ last.weaponBefore = "Laser"
    /\ frames = 1
    /\ player.weaponType = "Laser"

\* C5: the score is never negative; every step leaves it where it was or
\* higher, except startGame, which sets it to 0.
C5_ScoreMonotonic ==
    [][/\ player'.score >= 0
       /\ IF StartedGame THEN player'.score = 0 ELSE player'.score >= player.score]_vars

\* a second frame has ended with a boss defeated in it, enemies destroyed
\* before it
C5_ScoreRaised ==
    /\ FrameEnd
    /\ frames = 2
    /\ frameStart.gameState = "BossFight"
    /\ gameState = "Playing"
    /\ player.score >= 500 + SessionScore(level, 0)
    /\ explosions # <<>>

\* C6: the shield's health is always within 0 .. 100.
C6_ShieldHealthInRange == player.shield.health \in 0..ShieldFull

\* a body hit has taken the shield's health below 0
C6_ShieldBelowZero ==
    /\ last.op = "updateEnemies"
    /\ last.collided
    /\ ~player.shield.active
    /\ player.shield.health < 0

\* C7: the player's health is always within 0 .. 100; heal(a) gives
\* min(100, h + a), a Health power-up being heal(25); startGame gives 100.
C7_HealthInRange ==
    [][/\ player'.health \in 0..100
       /\ last'.op = "heal" => player'.health = Min(100, player.health + last'.arg)
       /\ last'.op = "updatePowerUps" /\ last'.applied = "Health"
            => player'.health = Min(100, player.health + 25)
       /\ StartedGame => player'.health = 100]_vars

\* in the game, a Health power-up has been collected with less than 25 missing
C7_HealCapped ==
    /\ last.op = "updatePowerUps"
    /\ last.applied = "Health"
    /\ frameStart.gameState = "Playing"
    /\ player.health = 100
    /\ player.score > 0

\* C8: no enemy in the enemies collection, and no boss, ever has a health
\* below 0.
C8_EnemyHealthNonNegative ==
    /\ \A i \in 1..Len(enemies) : enemies[i].health >= 0
    /\ boss.exists => boss.health >= 0

\* a frame has ended with the boss alive in the game at a health below 0
C8_BossBelowZero ==
    /\ FrameEnd
    /\ gameState = "BossFight"
    /\ boss.exists
    /\ boss.health < 0

\* C9: with the boss flag clear, Level::update(n) that brings the count to the
\* threshold 20 + 5 * (L - 1) or above gives level L + 1, count 0, flag set;
\* one that leaves it below only adds n to the count.
C9_LevelUpOnThreshold ==
    [][last'.op = "Level.update" /\ ~level.bossSpawned
         => IF level.enemiesDefeated + last'.arg >= 20 + 5 * (level.currentLevel - 1)
            THEN level' = [currentLevel |-> level.currentLevel + 1,
                           enemiesDefeated |-> 0, bossSpawned |-> TRUE]
            ELSE level' = [level EXCEPT !.enemiesDefeated = @ + last'.arg]]_vars

\* a call has carried the count over the threshold of a level above the first
C9_LevelRaised ==
    /\ last.op = "Level.update"
    /\ ~last.level.bossSpawned
    /\ last.level.currentLevel > 1
    /\ last.level.enemiesDefeated < 20 + 5 * (last.level.currentLevel - 1)
    /\ last.arg > 1
    /\ level.currentLevel = last.level.currentLevel + 1
    /\ level.enemiesDefeated = 0
    /\ level.bossSpawned

\* C10: with the boss flag set, Level::update (called by the harness, or for
\* an enemy destroyed by a bullet or a laser) leaves the level number as it is
\* and the flag set; the level number at the end of a frame that began and
\* ended in BossFight is the one it began with.
C10_NoRetrigger ==
    [][/\ level.bossSpawned /\ last'.op \in {"Level.update", "updateBullets", "updateLasers"}
            => level'.currentLevel = level.currentLevel /\ level'.bossSpawned
       /\ pc' = "idle" /\ frameStart'.gameState = "BossFight" /\ gameState' = "BossFight"
            => level'.currentLevel = frameStart'.level]_vars

\* a frame of the boss fight has ended with the count at the next threshold
C10_ThresholdPassedInFight ==
    /\ FrameEnd
    /\ frames > 0
    /\ frameStart.gameState = "BossFight"
    /\ gameState = "BossFight"
    /\ level.bossSpawned
    /\ level.enemiesDefeated >= 20 + 5 * (level.currentLevel - 1)

\* the level after lv
NextLevel(lv) == [lv EXCEPT !.currentLevel = lv.currentLevel + 1]

\* C11: at level L the enemy spawn interval is max(1.5 - 0.1 (L - 1), 0.5) s
\* and the power-up spawn interval max(10 - 0.5 (L - 1), 5) s (in ms here);
\* neither grows with L, neither is below its floor, and both are at their
\* floors exactly from level 11 on.
C11_SpawnIntervals ==
    last.op = "getSpawnIntervals"
      => LET L == level.currentLevel
         IN  /\ last.enemy = (IF 1500 - 100 * (L - 1) >= 500 THEN 1500 - 100 * (L - 1) ELSE 500)
             /\ last.powerup = (IF 10000 - 500 * (L - 1) >= 5000
                                THEN 10000 - 500 * (L - 1) ELSE 5000)
             /\ GetEnemySpawnInterval(NextLevel(level)) <= last.enemy
             /\ GetPowerUpSpawnInterval(NextLevel(level)) <= last.powerup
             /\ last.enemy >= 500
             /\ last.powerup >= 5000
             /\ (L >= 11) = (last.enemy = 500)
             /\ (L >= 11) = (last.powerup = 5000)

\* the intervals have been read at a level past the one where the floors are
\* first reached
C11_AtFloor ==
    /\ last.op = "getSpawnIntervals"
    /\ level.currentLevel > 11
    /\ last.enemy = 500
    /\ last.powerup = 5000

\* C12: shoot() with the player at (px, py) returns, by weapon: Basic one
\* bullet of damage 10 at (px, py - 30); Double two of damage 15 at
\* (px - 20, py - 20) and (px + 20, py - 20); Triple three of damage 20 at
\* (px, py - 30), (px - 25, py - 15), (px + 25, py - 15); Laser none.
\* shootLaser() returns a laser exactly at Laser.  The player is unchanged.
C12_ShootByWeapon ==
    last.op = "shoot"
      => LET w  == last.player.weaponType
             px == last.x
             py == last.y
         IN  /\ w = "Basic"
                  => last.bullets = <<[damage |-> 10, x |-> px, y |-> py - 30]>>
             /\ w = "Double"
                  => last.bullets = <<[damage |-> 15, x |-> px - 20, y |-> py - 20],
                                      [damage |-> 15, x |-> px + 20, y |-> py - 20]>>
             /\ w = "Triple"
                  => last.bullets = <<[damage |-> 20, x |-> px, y |-> py - 30],
                                      [damage |-> 20, x |-> px - 25, y |-> py - 15],
                                      [damage |-> 20, x |-> px + 25, y |-> py - 15]>>
             /\ w = "Laser" => last.bullets = <<>>
             /\ (Len(last.laser) = 1) = (w = "Laser")
             /\ Len(last.laser) <= 1
             /\ player = last.player

\* the Double weapon has been fired away from the starting position
C12_DoubleFired ==
    /\ last.op = "shoot"
    /\ last.player.weaponType = "Double"
    /\ last.x # 400
    /\ Len(last.bullets) = 2
    /\ last.bullets[1].x < last.bullets[2].x

\* C13: a boss whose health has dropped to 0 or below is removed by the update
\* of the next frame, whatever else happened in the frame of the killing hit,
\* and it leaves the game in no other way: its removal adds one explosion and
\* exactly 500 to the score and clears the boss flag of the level.
C13_BossDownIsAwarded ==
    [][/\ BossDown /\ pc = "update" => ~boss'.exists
       /\ BossDown /\ ~boss'.exists
            => /\ player'.score = player.score + 500
               /\ Len(explosions') = Len(explosions) + 1
               /\ ~level'.bossSpawned]_vars

\* a whole frame has been processed in GameOver with the boss still in the
\* game at a health of 0 or below
C13_BossDownLeftInGameOver ==
    /\ FrameEnd
    /\ frameStart.gameState = "GameOver"
    /\ gameState = "GameOver"
    /\ BossDown
    /\ level.bossSpawned

\* C14: a frame in which the boss is removed as destroyed ends in Victory when
\* the level is 5 or above and in Playing when it is below 5.
C14_StateAfterBossRemoved ==
    FrameEnd /\ frameStart.gameState = "BossFight" /\ frameStart.bossDown
      => gameState = (IF frameStart.level >= 5 THEN "Victory" ELSE "Playing")

\* the last boss has been removed as destroyed in a frame that ended in
\* GameOver
C14_VictoryLost ==
    /\ FrameEnd
    /\ frameStart.gameState = "BossFight"
    /\ frameStart.bossDown
    /\ frameStart.level >= 5
    /\ ~boss.exists
    /\ ~level.bossSpawned
    /\ player.health = 0
    /\ gameState = "GameOver"

\* the step taken is the start of updateBossFight with the boss removed as
\* destroyed
BossDefeated == last'.op = "updateBossFight" /\ last'.defeated

\* C15: the game state becomes Victory only by the removal of a destroyed boss
\* in BossFight at level 5 or above; the removal of a destroyed boss below
\* level 5 gives Playing.
C15_VictoryOnlyByLastBoss ==
    [][/\ gameState # "Victory" /\ gameState' = "Victory"
            => BossDefeated /\ gameState = "BossFight" /\ level.currentLevel >= 5
       /\ BossDefeated /\ level.currentLevel < 5 => gameState' = "Playing"]_vars

\* the boss of level 5 has just been removed as destroyed
C15_LastBossDefeated ==
    /\ last.op = "updateBossFight"
    /\ last.defeated
    /\ level.currentLevel = 5
    /\ ~boss.exists
    /\ gameState = "Victory"

\* C16: startGame from GameOver or Victory gives health 100, score 0, the
\* Basic weapon, level 1 with count 0 and the boss flag clear, empty bullets,
\* lasers, enemies, power-ups, explosions and enemy bullets, no boss, both
\* spawn timers 0 and the game state Playing.
C16_StartGameResets ==
    [][StartedGame /\ gameState \in {"GameOver", "Victory"}
         => /\ player'.health = 100
            /\ player'.score = 0
            /\ player'.weaponType = "Basic"
            /\ level' = [currentLevel |-> 1, enemiesDefeated |-> 0, bossSpawned |-> FALSE]
            /\ bullets' = <<>>
            /\ lasers' = <<>>
            /\ enemies' = <<>>
            /\ powerups' = <<>>
            /\ explosions' = <<>>
            /\ enemyBullets' = <<>>
            /\ ~boss'.exists
            /\ enemySpawnTimer' = 0
            /\ powerupSpawnTimer' = 0
            /\ gameState' = "Playing"]_vars

\* the game has been restarted from a GameOver that held a boss at health 0 or
\* below and a level above the first
C16_RestartedOverBoss ==
    /\ last.op = "handleEvents"
    /\ last.startGame
    /\ frameStart.gameState = "GameOver"
    /\ frameStart.bossDown
    /\ frameStart.level > 1
    /\ gameState = "Playing"
    /\ level.currentLevel = 1

\* the changes of game state the state machine allows from one frame to the
\* next
Transitions ==
    { <<"MainMenu", "Playing">>, <<"Playing", "BossFight">>, <<"Playing", "GameOver">>,
      <<"BossFight", "Playing">>, <<"BossFight", "Victory">>, <<"BossFight", "GameOver">>,
      <<"GameOver", "Playing">>, <<"Victory", "Playing">> }

\* C17: from the start of a frame to its end the game state stays or changes
\* along Transitions; MainMenu is never re-entered; a frame that begins in
\* MainMenu, GameOver or Victory leaves that state only in handleEvents, by
\* Return from MainMenu and by R from the other two, for Playing; a key press
\* handled in Playing or BossFight changes nothing of the game.
C17_StateMachine ==
    [][/\ pc' = "idle" /\ gameState' # frameStart'.gameState
            => <<frameStart'.gameState, gameState'>> \in Transitions
       /\ gameState' = "MainMenu" => gameState = "MainMenu"
       /\ pc = "idle" /\ gameState \in {"MainMenu", "GameOver", "Victory"}
               /\ gameState' # gameState
            => /\ last'.op = "handleEvents"
               /\ last'.key = (IF gameState = "MainMenu" THEN "Return" ELSE "R")
               /\ gameState' = "Playing"
       /\ pc # "idle" /\ gameState \in {"MainMenu", "GameOver", "Victory"}
               /\ frameStart.gameState = gameState
            => gameState' = gameState
       /\ last'.op = "handleEvents" /\ gameState \in {"Playing", "BossFight"}
            => /\ gameState' = gameState
               /\ [player' EXCEPT !.shootClock = 0] = [player EXCEPT !.shootClock = 0]
               /\ level' = level
               /\ objects' = objects
               /\ timers' = timers]_vars

\* a frame that began in Victory has ended in Playing
C17_RestartedAfterVictory ==
    /\ FrameEnd
    /\ frames = 2
    /\ frameStart.gameState = "Victory"
    /\ gameState = "Playing"

\* C18: after startGame the player's shield is inactive.
C18_ShieldResetOnStart ==
    last.op = "handleEvents" /\ last.startGame => ~player.shield.active

\* the game has been restarted after a Victory and the shield of the session
\* before is still active
C18_ShieldCarriedOver ==
    /\ last.op = "handleEvents"
    /\ last.startGame
    /\ frameStart.gameState = "Victory"
    /\ gameState = "Playing"
    /\ player.health = 100
    /\ player.score = 0
    /\ player.shield.active
    /\ player.shield.health < ShieldFull

\* a spawn timer after one frame of deltaTime
Advanced(timer, interval) ==
    IF timer + deltaTime >= interval THEN 0 ELSE timer + deltaTime

\* the step taken ends the part of an update in which the enemies and the
\* power-ups on screen have their turn: control enters the explosions loop or
\* the tail of updatePlaying or updateBossFight
PastEnemiesAndPowerUps ==
    /\ running' \in {"updatePlaying", "updateBossFight"}
    /\ pc \notin {"explosions", "tail"}
    /\ pc' \in {"explosions", "tail"}

\* C19: a frame processed in BossFight does as one processed in Playing: its
\* first part advances both spawn timers (and restarts a timer whose interval
\* has elapsed), and the update comes to the explosions only from the power-up
\* loop, or from the enemy loop with no power-up on screen, or with neither
\* enemies nor power-ups on screen.
C19_BossFightLikePlaying ==
    [][/\ last'.op \in {"updatePlaying", "updateBossFight"}
            => /\ enemySpawnTimer'
                    = Advanced(enemySpawnTimer, GetEnemySpawnInterval(level))
               /\ powerupSpawnTimer'
                    = Advanced(powerupSpawnTimer, GetPowerUpSpawnInterval(level))
       /\ PastEnemiesAndPowerUps
            => \/ pc = "powerups"
               \/ pc = "enemies" /\ powerups' = <<>>
               \/ enemies' = <<>> /\ powerups' = <<>>]_vars

\* two frames have been processed in BossFight, the second a long one: the
\* enemy that was on screen still is, and both spawn timers stand at 0
C19_EnemyAndTimersUntouched ==
    /\ FrameEnd
    /\ frames = 2
    /\ deltaTime = 1500
    /\ frameStart.gameState = "BossFight"
    /\ gameState = "BossFight"
    /\ player.health = 75
    /\ enemies = <<BasicEnemy>>
    /\ enemySpawnTimer = 0
    /\ powerupSpawnTimer = 0

\* the statement of C19 for the frames processed in Playing alone, which holds
C19_HoldsInPlaying ==
    [][/\ last'.op = "updatePlaying"
            => /\ enemySpawnTimer'
                    = Advanced(enemySpawnTimer, GetEnemySpawnInterval(level))
               /\ powerupSpawnTimer'
                    = Advanced(powerupSpawnTimer, GetPowerUpSpawnInterval(level))
       /\ PastEnemiesAndPowerUps /\ running' = "updatePlaying"
            => \/ pc = "powerups"
               \/ pc = "enemies" /\ powerups' = <<>>
               \/ enemies' = <<>> /\ powerups' = <<>>]_vars

\* C20: canShoot() returns true only when more than the cooldown of the
\* current weapon (250, 200, 150, 1000 ms) has passed since its last true
\* result; on true it restarts the clock and changes nothing else of the
\* player, on false it changes nothing at all.
C20_CanShootCooldown ==
    [][last'.op = "canShoot"
         => /\ last'.result => Elapsed > Cooldown(player.weaponType)
            /\ Cooldown(player.weaponType)
                 = (CASE player.weaponType = "Basic"  -> 250
                      [] player.weaponType = "Double" -> 200
                      [] player.weaponType = "Triple" -> 150
                      [] player.weaponType = "Laser"  -> 1000)
            /\ last'.result => player' = [player EXCEPT !.shootClock = 0]
            /\ ~last'.result => player' = player]_vars

\* canShoot() has returned false with exactly the cooldown of the Double
\* weapon passed, and has left the clock running
C20_RefusedAtCooldown ==
    /\ last.op = "canShoot"
    /\ ~last.result
    /\ last.elapsed = 200
    /\ player.weaponType = "Double"
    /\ player.shootClock = 200

\* C21: whatever direction keys are held and whatever the frame deltas, a
\* player that started at (400, 550) and has only been moved by Player::update
\* is inside the play area: 0 <= x <= 800 and 0 <= y <= 600.
C21_PositionInPlayArea ==
    /\ player.x >= 0
    /\ player.x <= 800000
    /\ player.y >= 0
    /\ player.y <= 600000

\* updates of 100 ms with Left held have taken the player from x = 400 to
\* x = 10 in thirteen steps of 30; the fourteenth has passed the test "x > 0"
\* and moved it on to x = -20
C21_LeftOfPlayArea ==
    /\ last.op = "move"
    /\ last.arg = 100
    /\ player.x = 0 - 20000
    /\ player.y = 550000

\* the enemies and the boss that differ after the step from before it, when no
\* enemy has been erased
Damaged ==
    {k \in 1..Len(enemies) : enemies'[k] # enemies[k]}
        \cup (IF boss' # boss THEN {0} ELSE {})

\* C22: a bullet that overlaps enemies damages the first of them in collection
\* order by its own damage and no other enemy nor the boss, and is erased in
\* that step whether the enemy survives (it stays, hurt) or not (it is
\* erased); a bullet that overlaps no enemy and hits the boss damages the boss
\* alone and is erased in that step; any other bullet damages nothing.  An
\* erased bullet is in no later pass, so no bullet damages two targets.
C22_BulletHitsOnce ==
    [][last'.op = "updateBullets"
         => LET b     == bullets[it]
                hits  == last'.hits
                first == CHOOSE k \in hits : \A j \in hits : k <= j
            IN  IF hits # {}
                THEN /\ bullets' = Erase(bullets, it)
                     /\ boss' = boss
                     /\ IF enemies[first].health - b.damage <= 0
                        THEN enemies' = Erase(enemies, first)
                        ELSE /\ Len(enemies') = Len(enemies)
                             /\ Damaged = {first}
                             /\ enemies'[first].health = enemies[first].health - b.damage
                ELSE IF last'.boss
                THEN /\ bullets' = Erase(bullets, it)
                     /\ boss.exists
                     /\ enemies' = enemies
                     /\ boss' = [boss EXCEPT !.health = boss.health - b.damage]
                ELSE /\ enemies' = enemies
                     /\ boss' = boss
                     /\ bullets' = (IF last'.removed THEN Erase(bullets, it) ELSE bullets)]_vars

\* a bullet overlapping two enemies has hurt the first, which survives, and is
\* gone; the second enemy is as it was spawned
C22_FirstOfTwoHit ==
    /\ last.op = "updateBullets"
    /\ last.hits = {1, 2}
    /\ ~last.killed
    /\ last.removed
    /\ Len(enemies) = 2
    /\ enemies[1].health < BasicEnemy.health
    /\ enemies[2] \in {BasicEnemy, FastEnemy, TankyEnemy}

\* the score values of the enemies at the indices of S, summed
RECURSIVE ScoreOf(_)
ScoreOf(S) ==
    IF S = {} THEN 0
    ELSE LET k == CHOOSE j \in S : TRUE
         IN  enemies[k].scoreValue + ScoreOf(S \ {k})

\* the level after n calls of Level::update(1)
RECURSIVE LevelAfter(_, _)
LevelAfter(lv, n) == IF n = 0 THEN lv ELSE LevelAfter(LevelUpdate(lv, 1), n - 1)

\* C23: no enemy is in the collection with a health of 0 or below; a bullet
\* (on the first enemy it overlaps) and a laser (on every enemy it overlaps)
\* erase in the same step exactly the enemies they bring to 0 or below, and for
\* each of them add one explosion, its own score value (Basic 10, Fast 15,
\* Tanky 20) and one Level::update(1); a step that destroys none leaves the
\* score without enemy points and the level as it was.
C23_DestroyedEnemyCountedOnce ==
    [][/\ \A k \in 1..Len(enemies') :
            /\ enemies'[k].health > 0
            /\ enemies'[k].scoreValue = (CASE enemies'[k].type = "Basic" -> 10
                                           [] enemies'[k].type = "Fast"  -> 15
                                           [] enemies'[k].type = "Tanky" -> 20)
       /\ last'.op \in {"updateBullets", "updateLasers"}
            => LET hit  == IF last'.op = "updateLasers" THEN last'.enemies
                           ELSE IF last'.hits = {} THEN {}
                           ELSE {CHOOSE k \in last'.hits : \A j \in last'.hits : k <= j}
                   d    == IF last'.op = "updateLasers" THEN lasers[it].damage
                           ELSE bullets[it].damage
                   dead == {k \in hit : enemies[k].health - d <= 0}
               IN  /\ Len(enemies') = Len(enemies) - Cardinality(dead)
                   /\ \A k \in 1..Len(enemies) :
                         k \notin dead
                           => enemies'[k - Cardinality({j \in dead : j < k})].type
                                = enemies[k].type
                   /\ Len(explosions') = Len(explosions) + Cardinality(dead)
                   /\ player'.score = player.score + ScoreOf(dead)
                   /\ level' = LevelAfter(level, Cardinality(dead))]_vars

\* a laser has destroyed the Tanky enemy that was one short of the threshold of
\* level 3: 20 points, one explosion, the level raised to 4
C23_TankyDestroyedByLaser ==
    /\ last.op = "updateLasers"
    /\ last.killed = 1
    /\ enemies = <<>>
    /\ explosions # <<>>
    /\ level = [currentLevel |-> 4, enemiesDefeated |-> 0, bossSpawned |-> TRUE]
    /\ player.score = SessionScore([currentLevel |-> 3, enemiesDefeated |-> 29], 2) + 20

\* C24: in the updates of Playing and BossFight a laser leaves the collection
\* only in its own turn of updateLasers, and then exactly when its lifetime
\* after the update is 0 or below, whatever it has hit; in that turn every
\* enemy it overlaps, and the boss if it overlaps it, takes the laser's damage
\* (an enemy brought to 0 or below is erased, the others stay in order), and
\* nothing else is damaged.
C24_LaserEndsByLifetime ==
    [][/\ pc # "idle" /\ last'.op # "updateLasers" => Len(lasers') >= Len(lasers)
       /\ last'.op = "updateLasers"
            => LET l    == lasers[it]
                   left == l.lifetime - deltaTime
                   hits == last'.enemies
                   dead == {k \in hits : enemies[k].health - l.damage <= 0}
               IN  /\ last'.removed = (left <= 0)
                   /\ lasers' = (IF left <= 0 THEN Erase(lasers, it)
                                 ELSE [lasers EXCEPT ![it].lifetime = left])
                   /\ Len(enemies') = Len(enemies) - Cardinality(dead)
                   /\ \A k \in 1..Len(enemies) :
                         k \notin dead
                           => enemies'[k - Cardinality({j \in dead : j < k})]
                                = (IF k \in hits
                                   THEN [enemies[k] EXCEPT !.health = @ - l.damage]
                                   ELSE enemies[k])
                   /\ boss' = (IF boss.exists /\ last'.boss
                               THEN [boss EXCEPT !.health = @ - l.damage] ELSE boss)]_vars

\* a laser fired in a frame of 100 ms has had its turn: it overlapped both
\* enemies on screen, destroyed one, hurt the other, and stays with 400 ms left
C24_LaserStaysAfterHits ==
    /\ last.op = "updateLasers"
    /\ last.enemies = {1, 2}
    /\ last.killed = 1
    /\ ~last.removed
    /\ lasers = <<[lifetime |-> 400, damage |-> 1]>>
    /\ Len(enemies) = 1
    /\ enemies[1].health \in {BasicEnemy.health - 1, FastEnemy.health - 1,
                               TankyEnemy.health - 1}

\* C25: a collection loop is entered at its first element; the iterator always
\* stands on an element of the collection; a turn that erases its element
\* leaves all the others in order and the iterator on the one that followed,
\* a turn that keeps it leaves the others as they were and the iterator on the
\* next; the loop is left only when no element follows.  So every element
\* present when the loop is entered has exactly one turn, in order.
C25_EveryElementVisitedOnce ==
    [][/\ pc' \in Loops => it' \in 1..Len(World'[pc'])
       /\ pc' \in Loops /\ pc' # pc => it' = 1
       /\ pc \in Loops
            => LET c    == World[pc]
                   d    == World'[pc]
                   next == IF last'.removed THEN it ELSE it + 1
               IN  /\ IF last'.removed
                      THEN d = Erase(c, it)
                      ELSE /\ Len(d) = Len(c)
                           /\ \A k \in 1..Len(c) : k # it => d[k] = c[k]
                   /\ IF next <= Len(d)
                      THEN pc' = pc /\ it' = next
                      ELSE pc' # pc]_vars

\* the first enemy bullet of a volley has hit the player and is erased: the
\* iterator stands on the bullet that followed it, now the first of two
C25_ErasedBeforeNext ==
    /\ last.op = "enemyBullets"
    /\ last.collided
    /\ last.removed
    /\ pc = "enemyBullets"
    /\ it = 1
    /\ Len(enemyBullets) = 2
    /\ player.health > 0

\* C26: in updateBossFight an enemy bullet that overlaps the player is erased
\* in that turn, and the player is what one takeDamage(10) makes of it; if the
\* player's health is then 0 one explosion is added and the game state is
\* GameOver, and it stays GameOver through the rest of updateBossFight to the
\* end of the frame.
C26_EnemyBulletHitsPlayer ==
    [][/\ last'.op = "enemyBullets" /\ last'.collided
            => /\ running' = "updateBossFight"
               /\ enemyBullets' = Erase(enemyBullets, it)
               /\ player' = (IF player.shield.active
                             THEN [player EXCEPT !.shield = ShieldTakeDamage(@, 10)]
                             ELSE [player EXCEPT !.health = Max(0, @ - 10)])
               /\ player'.health = 0
                    => /\ gameState' = "GameOver"
                       /\ Len(explosions') = Len(explosions) + 1
       /\ running = "updateBossFight" /\ pc # "idle" /\ gameState = "GameOver"
            => gameState' = "GameOver"]_vars

\* an enemy bullet has taken the last 10 points of the player's health while
\* the boss lives: GameOver, with the explosion of the player
C26_KilledByEnemyBullet ==
    /\ last.op = "enemyBullets"
    /\ last.collided
    /\ player.health = 0
    /\ ~player.shield.active
    /\ gameState = "GameOver"
    /\ explosions # <<>>
    /\ boss.exists
    /\ boss.health > 0

\* the boss is updated in the step taken
BossUpdated == boss.exists /\ boss'.exists /\ last'.op \in {"bossFrame", "updateBossFight"}

C28_OnlyLiveBossFires ==
    [][/\ Len(enemyBullets') > Len(enemyBullets)
            => /\ last'.op = "updateBossFight"
               /\ Len(enemyBullets') = Len(enemyBullets) + 3
               /\ boss.exists
               /\ boss.health > 0
               /\ boss.shootCooldown - deltaTime <= 0
               /\ boss'.exists => boss'.shootCooldown = 500
       /\ BossUpdated /\ Len(enemyBullets') = Len(enemyBullets)
            => /\ boss'.shootCooldown = boss.shootCooldown - deltaTime
               /\ boss'.shootCooldown > 0]_vars

\* a boss that began the frame at a health of 0 has fired its volley in that
\* frame's update and has then been removed as destroyed
C28_DeadBossFired ==
    /\ last.op = "updateBossFight"
    /\ last.fired
    /\ last.defeated
    /\ frameStart.bossDown
    /\ ~boss.exists
    /\ Len(enemyBullets) = 3
    /\ gameState = "Victory"

\* C29: a power-up that overlaps the player is erased in that turn and leaves
\* the player changed by the effect of its type alone (Health: health
\* min(100, h + 25); Shield: the shield active at 100; WeaponUpgrade: what one
\* upgradeWeapon call gives; ScoreBoost: score + 50); one that does not overlap
\* it leaves the player as it is, and is erased exactly when it is off screen.
C29_PowerUpAppliedOnce ==
    [][last'.op = "updatePowerUps"
         => LET u == powerups[it].type
            IN  IF last'.applied # "none"
                THEN /\ last'.applied = u
                     /\ powerups' = Erase(powerups, it)
                     /\ u = "Health"
                          => player' = [player EXCEPT !.health = Min(100, @ + 25)]
                     /\ u = "Shield"
                          => player' = [player EXCEPT
                                          !.shield = [health |-> ShieldFull, active |-> TRUE]]
                     /\ u = "WeaponUpgrade" => player' = UpgradeWeapon(player)
                     /\ u = "ScoreBoost"
                          => player' = [player EXCEPT !.score = @ + 50]
                ELSE /\ player' = player
                     /\ powerups' = (IF last'.removed THEN Erase(powerups, it)
                                     ELSE powerups)]_vars

\* a Shield power-up has been collected by a player at health 90, below the
\* first weapon: the shield is active at 100, health and weapon are as before
C29_ShieldCollected ==
    /\ last.op = "updatePowerUps"
    /\ last.applied = "Shield"
    /\ player.shield = [health |-> ShieldFull, active |-> TRUE]
    /\ player.health = 90
    /\ player.weaponType = "Double"
    /\ powerups = <<>>

\* C30: Game::boss is one pointer, so at most one boss is in the game.  It is
\* set to a new boss only by the update of a frame processed in BossFight that
\* finds it null, and whenever the game state is MainMenu, Playing or Victory
\* it is null: a boss is in the game only in BossFight and GameOver.
C30_BossOnlyInFight ==
    [][/\ ~boss.exists /\ boss'.exists
            => /\ last'.op = "updateBossFight"
               /\ last'.created
               /\ gameState = "BossFight"
               /\ boss' = NewBoss
       /\ gameState' \in {"MainMenu", "Playing", "Victory"} => ~boss'.exists
       /\ boss'.exists => gameState' \in {"BossFight", "GameOver"}]_vars

\* the game has been restarted from a GameOver with the boss alive in it:
\* Playing, without a boss
C30_BossDroppedByRestart ==
    /\ last.op = "handleEvents"
    /\ last.startGame
    /\ frameStart.gameState = "GameOver"
    /\ ~frameStart.bossDown
    /\ frameStart.level > 1
    /\ frames = 2
    /\ gameState = "Playing"
    /\ ~boss.exists

\* C31: a turn of updateEnemies leaves the score and the level (number,
\* count, boss flag) as they are.  An enemy that collides with the player is
\* erased, the player is what one takeDamage(25) makes of it, and one explosion
\* is added (a second one, with GameOver, when the player's health is then 0);
\* an enemy that does not collide and is off screen is erased and nothing else
\* of the game changes.
C31_UnscoredEnemyRemoval ==
    [][last'.op = "updateEnemies"
         => /\ player'.score = player.score
            /\ level' = level
            /\ IF last'.collided
               THEN /\ enemies' = Erase(enemies, it)
                    /\ player' = (IF player.shield.active
                                  THEN [player EXCEPT !.shield = ShieldTakeDamage(@, 25)]
                                  ELSE [player EXCEPT !.health = Max(0, @ - 25)])
                    /\ Len(explosions')
                         = Len(explosions) + (IF player'.health <= 0 THEN 2 ELSE 1)
               ELSE /\ enemies' = (IF last'.removed THEN Erase(enemies, it) ELSE enemies)
                    /\ player' = player
                    /\ gameState' = gameState
                    /\ explosions' = explosions
                    /\ <<bullets', lasers', powerups', enemyBullets', boss'>>
                         = <<bullets, lasers, powerups, enemyBullets, boss>>
                    /\ timers' = timers]_vars

\* an enemy has collided with a player one enemy short of the first threshold:
\* the player has lost the health it had left, the count still stands at 19 and
\* the score at 190
C31_CollisionNotCounted ==
    /\ last.op = "updateEnemies"
    /\ last.collided
    /\ player.health = 0
    /\ player.score = 190
    /\ level = [currentLevel |-> 1, enemiesDefeated |-> 19, bossSpawned |-> FALSE]
    /\ Len(explosions) >= 2

\* C32: whenever the game state is GameOver the player's health is 0.
C32_DeadInGameOver == gameState = "GameOver" => player.health = 0

\* the player has died by a body hit and has then, in the same frame, picked
\* up a Health power-up: the frame has ended in GameOver with a health of 25
C32_HealedAfterDeath ==
    /\ FrameEnd
    /\ frames = 1
    /\ frameStart.gameState = "Playing"
    /\ gameState = "GameOver"
    /\ player.health = 25
    /\ enemies = <<>>
    /\ powerups = <<>>

\* C33: the level is raised when a boss fight is triggered, so the n-th boss
\* removed as destroyed since the session began is removed at level n + 1 (the
\* first boss is fought at level 2), the game state is Victory only once four
\* bosses have been defeated, and the level number is at most 5 while the game
\* state is Playing or BossFight.
C33_LevelAtBossDefeat ==
    /\ [](/\ level.currentLevel
               = bossDefeats + 1 + (IF level.bossSpawned THEN 1 ELSE 0)
          /\ boss.exists => level.currentLevel = bossDefeats + 2
          /\ gameState = "Victory" => bossDefeats >= 4
          /\ gameState \in {"Playing", "BossFight"} => level.currentLevel <= 5)
    /\ [][/\ bossDefeats' \in {bossDefeats, bossDefeats + 1, 0}
          /\ bossDefeats' = bossDefeats + 1
               => /\ last'.op = "updateBossFight"
                  /\ last'.defeated
                  /\ boss.exists /\ ~boss'.exists
                  /\ level.currentLevel = bossDefeats' + 1
                  /\ level'.currentLevel = bossDefeats' + 1
          /\ (last'.op = "updateBossFight" /\ last'.defeated)
               => bossDefeats' = bossDefeats + 1
          /\ gameState' = "Victory" /\ gameState # "Victory"
               => bossDefeats' = bossDefeats + 1 /\ bossDefeats' >= 4]_vars

\* the first boss of the session has been removed as destroyed, at level 2,
\* and the game has gone back to Playing
C33_FirstBossDefeatedAtLevelTwo ==
    /\ last.op = "updateBossFight"
    /\ last.defeated
    /\ bossDefeats = 1
    /\ level.currentLevel = 2
    /\ ~level.bossSpawned
    /\ gameState = "Playing"

====
